---- MODULE Spec2Model ----
(***************************************************************************)
(* A model of atlite/datasets/cmip.py: the ESGF catalog resolver           *)
(* (search_ESGF), the temporal coverage filter (_year_in_file), the        *)
(* retrieval engine (retrieve_data) with its optional lock, the four       *)
(* feature calculators (get_data_influx, get_data_wind, get_data_surface,  *)
(* get_data_wind10m) and the dispatcher (get_data).                        *)
(*                                                                         *)
(* Strings that the code splits and slices (locator urls, date-range       *)
(* tokens) are sequences of one-character strings; names that the code     *)
(* only compares or concatenates are TLA+ strings.                         *)
(***************************************************************************)
EXTENDS Integers, Sequences, FiniteSets, TLC

(***************************************************************************)
(* Bounds of the model.                                                    *)
(***************************************************************************)
\* largest hit count the catalog reports for one query
MaxHits == 1
\* first year a locator's date range may start in
YearLo == 1998
\* locators' years range over YearLo .. YearLo + YearSpan
YearSpan == 4

(***************************************************************************)
(* Python string primitives, on sequences of characters.                   *)
(***************************************************************************)
Digit == [c \in {"0", "1", "2", "3", "4", "5", "6", "7", "8", "9"} |->
            CASE c = "0" -> 0 [] c = "1" -> 1 [] c = "2" -> 2 [] c = "3" -> 3
              [] c = "4" -> 4 [] c = "5" -> 5 [] c = "6" -> 6 [] c = "7" -> 7
              [] c = "8" -> 8 [] c = "9" -> 9]

DigitChar == <<"0", "1", "2", "3", "4", "5", "6", "7", "8", "9">>

\* int(s) for a string of decimal digits
RECURSIVE PyInt(_)
PyInt(s) == IF s = <<>> THEN 0
            ELSE 10 * PyInt(SubSeq(s, 1, Len(s) - 1)) + Digit[s[Len(s)]]

\* s[:n]
Prefix(s, n) == SubSeq(s, 1, IF Len(s) < n THEN Len(s) ELSE n)

\* index of the first occurrence of the character sep in s at or after i, or 0
RECURSIVE FindFrom(_, _, _)
FindFrom(s, sep, i) == IF i > Len(s) THEN 0
                       ELSE IF s[i] = sep THEN i
                       ELSE FindFrom(s, sep, i + 1)

\* s.split(sep) for a one-character separator
RECURSIVE PySplit(_, _)
PySplit(s, sep) ==
    LET k == FindFrom(s, sep, 1)
    IN  IF k = 0 THEN <<s>>
        ELSE <<SubSeq(s, 1, k - 1)>> \o PySplit(SubSeq(s, k + 1, Len(s)), sep)

\* xs[-1]
Last(xs) == xs[Len(xs)]

(***************************************************************************)
(* Python dict primitives, on functions.                                   *)
(***************************************************************************)
EmptyDict == [k \in {} |-> ""]

\* d[k] = v
DictSet(d, k, v) == [x \in (DOMAIN d) \cup {k} |-> IF x = k THEN v ELSE d[x]]

\* d.pop(k), for a key that is present
DictPop(d, k) == [x \in (DOMAIN d) \ {k} |-> d[x]]

\* the elements of a list, as a set
ListSet(xs) == { xs[i] : i \in 1 .. Len(xs) }

(***************************************************************************)
(* How the archive names its files: <variable>_<table>_<range>.nc, the     *)
(* range being YYYYMMDD-YYYYMMDD (daily and finer tables) or YYYYMM-YYYYMM *)
(* (monthly tables).                                                       *)
(***************************************************************************)
Year4(y) == << DigitChar[((y \div 1000) % 10) + 1], DigitChar[((y \div 100) % 10) + 1],
               DigitChar[((y \div 10) % 10) + 1], DigitChar[(y % 10) + 1] >>

RangeFormats == {"day", "mon"}

RangeToken(s, e, fmt) ==
    IF fmt = "day"
    THEN Year4(s) \o <<"0", "1", "0", "1">> \o <<"-">> \o Year4(e) \o <<"1", "2", "3", "1">>
         \o <<".", "n", "c">>
    ELSE Year4(s) \o <<"0", "1">> \o <<"-">> \o Year4(e) \o <<"1", "2">> \o <<".", "n", "c">>

OpendapUrl(s, e, fmt) == <<"u", "a", "_", "E", "3", "h", "r", "_">> \o RangeToken(s, e, fmt)

Years == YearLo .. (YearLo + YearSpan)

\* the years a cutout's time axis may cover (time.year.unique(), never empty)
RequestedYearSets == { ys \in SUBSET ((YearLo + 1) .. (YearLo + 3)) : ys # {} }

(***************************************************************************)
(* _year_in_file                                                           *)
(***************************************************************************)
\* pd.date_range(str(s_year), str(e_year), freq="AS").year: the years whose
\* 1 January lies between 1 January s_year and 1 January e_year, both included
DateRangeASYears(s_year, e_year) == s_year .. e_year

year_in_file_wrong_end(time_range, years) ==
    LET tr     == PySplit(time_range, ".")[1]
        s_year == PyInt(Prefix(PySplit(tr, "-")[1], 4))
        e_year == PyInt(Prefix(PySplit(tr, "-")[2], 4))
    IN  IF s_year = e_year /\ e_year \in years THEN TRUE
        ELSE IF (DateRangeASYears(s_year, e_year - 1) \cap years) # {} THEN TRUE
        ELSE FALSE

year_in_file(time_range, years) ==
    LET tr     == PySplit(time_range, ".")[1]
        s_year == PyInt(Prefix(PySplit(tr, "-")[1], 4))
        e_year == PyInt(Prefix(PySplit(tr, "-")[2], 4))
        date_range == DateRangeASYears(s_year, e_year)
    IN  IF s_year = e_year /\ e_year \in years THEN TRUE
        ELSE IF (date_range \cap years) # {} THEN TRUE
        ELSE FALSE


(***************************************************************************)
(* Module-level names.                                                     *)
(***************************************************************************)
features == [ wind    |-> <<"wnd", "z", "ua", "va", "ta", "hus", "pa">>,
              influx  |-> <<"influx", "outflux">>,
              wind10m |-> <<"ua10m", "va10m", "wnd10m">>,
              surface |-> <<"temperature", "humidity", "pressure">> ]

\* the functions the module defines, which globals().get looks names up in
Globals == { "search_ESGF", "get_data_influx", "sanitize_inflow", "get_data_wind",
             "get_data_surface", "get_data_wind10m", "_year_in_file",
             "retrieve_data", "_rename_and_fix_coords", "get_data" }

\* the exceptions the code raises itself, each with a message that names the
\* precondition it found violated
ErrNoParams  == "ValueError: ESGF search parameters not provided"
ErrCadence   == "ValueError: not valid time frequency in CMIP"
ErrNoResults == "ValueError: No results found in the ESGF_database"
ExplicitErrors == { ErrNoParams, ErrCadence, ErrNoResults }

\* the exceptions the interpreter and the libraries raise
ErrNotCallable == "TypeError: 'NoneType' object is not callable"
ErrKey         == "KeyError"
ErrNoFiles     == "OSError: no files to open"
ErrOpen        == "OSError: cannot open the remote file"
ErrDropHeight  == "ValueError: variable height not found in this dataset"
ErrAttribute   == "AttributeError: 'Dataset' object has no such attribute"
ErrUnbound     == "UnboundLocalError: local variable 't' referenced before assignment"

(***************************************************************************)
(* Datasets: the names of the data variables and of the coordinates, the   *)
(* attributes, and one sample value for each variable read from a file.    *)
(***************************************************************************)
Dataset(dv, co, at, va) == [data_vars |-> dv, coords |-> co, attrs |-> at, vals |-> va]

NoDataset == Dataset({}, {}, EmptyDict, EmptyDict)

\* ds.name: an attribute of a Dataset is one of its variables or coordinates
HasAttr(ds, name) == name \in ds.data_vars \cup ds.coords

\* ds[name] = src[var]: the array comes with its coordinates and its sample value
Assign(ds, name, src, var) ==
    [ds EXCEPT !.data_vars = @ \cup {name}, !.coords = @ \cup src.coords,
               !.vals = DictSet(@, name, src.vals[var])]

\* ds[name] = <array computed from arrays of the datasets srcs>
AssignComputed(ds, name, srcs) ==
    [ds EXCEPT !.data_vars = @ \cup {name},
               !.coords = @ \cup UNION { src.coords : src \in srcs },
               !.vals = [x \in (DOMAIN @) \ {name} |-> @[x]]]

\* ds.drop_vars(name), for a name the dataset has
DropVar(ds, name) ==
    [ds EXCEPT !.data_vars = @ \ {name}, !.coords = @ \ {name},
               !.vals = [x \in (DOMAIN @) \ {name} |-> @[x]]]

\* ds.rename({old: new}) for a data variable
RenameVar(ds, old, new) ==
    [ds EXCEPT !.data_vars = (@ \ {old}) \cup {new},
               !.vals = [x \in ((DOMAIN @) \ {old}) \cup {new} |->
                            IF x = new THEN @[old] ELSE @[x]]]

\* for variable in list(ds.keys()): if variable not in keep: ds = ds.drop_vars(variable)
PruneKeepsAll(ds, keep) == ds

Prune(ds, keep) ==
    [ds EXCEPT !.data_vars = @ \cap keep,
               !.vals = [x \in (DOMAIN @) \cap keep |-> @[x]]]

\* xr.merge(dsets)
RECURSIVE Merge(_)
Merge(dsets) ==
    IF dsets = <<>> THEN NoDataset
    ELSE LET rest == Merge(Tail(dsets))
             d    == Head(dsets)
         IN  Dataset(d.data_vars \cup rest.data_vars, d.coords \cup rest.coords, EmptyDict,
                     [x \in (DOMAIN d.vals) \cup (DOMAIN rest.vals) |->
                         IF x \in DOMAIN d.vals THEN d.vals[x] ELSE rest.vals[x]])

\* _rename_and_fix_coords: lon and lat become x and y, and are kept as aliases
rename_and_fix_coords(ds) ==
    [ds EXCEPT !.coords = (@ \ {"lon", "lat"}) \cup {"x", "y", "lon", "lat"}]

\* sanitize_inflow: ds["influx"] = ds["influx"].clip(min=0.0)
sanitize_inflow(ds) ==
    [ds EXCEPT !.vals = [x \in DOMAIN @ |->
                            IF x = "influx" /\ @[x] < 0 THEN 0 ELSE @[x]]]

(***************************************************************************)
(* What the archive serves.  A file of a variable holds the variable and,  *)
(* with it, whatever auxiliary variables and coordinates the publishing    *)
(* model wrote.                                                            *)
(***************************************************************************)
LevelVariables == {"ua", "va", "ta", "hus"}

\* files on model levels: sigma, hybrid sigma with a reference pressure,
\* hybrid height with the orography, and a file with no vertical formula terms
LevelLayouts ==
    { [aux |-> {"ps", "ap", "b", "lev_bnds"}, coords |-> {"lon", "lat", "time", "lev"}],
      [aux |-> {"ps", "p0", "a", "b"},        coords |-> {"lon", "lat", "time", "lev"}],
      [aux |-> {"b", "orog", "time_bnds"},    coords |-> {"lon", "lat", "time", "lev"}],
      [aux |-> {"ps"},                        coords |-> {"lon", "lat", "time", "lev"}] }

\* files of surface fields, with or without the scalar height coordinate
SurfaceLayouts ==
    { [aux |-> {"time_bnds"}, coords |-> {"lon", "lat", "time", "height"}],
      [aux |-> {"time_bnds", "lat_bnds"}, coords |-> {"lon", "lat", "time"}],
      [aux |-> {}, coords |-> {"lon", "lat", "time", "height"}] }

Layouts(variable) == IF variable \in LevelVariables THEN LevelLayouts ELSE SurfaceLayouts

\* sample values of a field; only the downwelling radiation is ever clipped,
\* so only its sample takes several signs
SampleValues(variable) == IF variable = "rsds" THEN {-1, 0, 2} ELSE {2}

\* the locator lists a catalog record may hold
LocatorLists ==
    { <<>>,
      << OpendapUrl(YearLo + 2, YearLo + 2, "day") >>,
      << OpendapUrl(YearLo, YearLo + 1, "day"), OpendapUrl(YearLo + 2, YearLo + 4, "day") >>,
      << OpendapUrl(YearLo, YearLo, "mon") >> }

(***************************************************************************)
(* get_data: the dispatcher, up to the call of the calculator.             *)
(***************************************************************************)
CadenceTable == ("H" :> "h") @@ ("3H" :> "3hr") @@ ("6H" :> "6hr") @@
                ("D" :> "day") @@ ("M" :> "mon") @@ ("Y" :> "year")

\* creation_parameters.get("sanitize", True)
SanitizeOf(creation_parameters) ==
    IF "sanitize" \in DOMAIN creation_parameters THEN creation_parameters["sanitize"] ELSE TRUE

\* the key of esgf_params_all each calculator reads its frequency from
FrequencyKey == [ influx |-> "frequency_solar", wind |-> "frequency_wind",
                  surface |-> "frequency_temp", wind10m |-> "frequency_wnd10m" ]

CommonKeys == {"source_id", "variant_label", "experiment_id", "project"}

\* the keys a calculator reads from esgf_params_all
KeysRead(feature) ==
    CommonKeys \cup {FrequencyKey[feature]}
        \cup (IF feature = "wind" THEN {"table_id_wind"} ELSE {})

\* the esgf_params dict a calculator builds from esgf_params_all
CalculatorParams(feature, esgf_params_all) ==
    LET base == [k \in CommonKeys \cup {"frequency"} |->
                    IF k = "frequency" THEN esgf_params_all[FrequencyKey[feature]]
                    ELSE esgf_params_all[k]]
    IN  IF feature = "wind"
        THEN DictSet(base, "table_id", esgf_params_all["table_id_wind"])
        ELSE base

\* get_data from its entry to the calculator's first retrieve_data call:
\* err is the exception raised on the way ("" for none), esgf_params_all the
\* cutout's dict as get_data leaves it, esgf_params the calculator's dict,
\* defaulted whether the frequency was taken from the cadence table
get_data_entry(cutout, feature) ==
    IF cutout.esgf_params = <<>>
    THEN [err |-> ErrNoParams, esgf_params_all |-> <<>>, esgf_params |-> EmptyDict,
          defaulted |-> FALSE]
    ELSE
      LET given     == cutout.esgf_params[1]
          defaulted == "frequency" \notin DOMAIN given
      IN  IF defaulted /\ cutout.dt \notin DOMAIN CadenceTable
          THEN [err |-> ErrCadence, esgf_params_all |-> <<given>>, esgf_params |-> EmptyDict,
                defaulted |-> defaulted]
          ELSE
            LET freq == IF defaulted THEN CadenceTable[cutout.dt] ELSE given["frequency"]
                all  == DictSet(given, "frequency", freq)
            IN  IF ("get_data_" \o feature) \notin Globals
                THEN [err |-> ErrNotCallable, esgf_params_all |-> <<all>>,
                      esgf_params |-> EmptyDict, defaulted |-> defaulted]
                ELSE IF ~(KeysRead(feature) \subseteq DOMAIN all)
                THEN [err |-> ErrKey, esgf_params_all |-> <<all>>,
                      esgf_params |-> EmptyDict, defaulted |-> defaulted]
                ELSE [err |-> "", esgf_params_all |-> <<all>>,
                      esgf_params |-> CalculatorParams(feature, all),
                      defaulted |-> defaulted]

(***************************************************************************)
(* The calculators, between and after their retrieve_data calls.  `got`    *)
(* maps the calculator's local names to the datasets it has retrieved and  *)
(* normalised so far.                                                      *)
(***************************************************************************)
\* the local each retrieved variable is bound to
LocalOf == [ rsds |-> "rsds", rsus |-> "rsus", ua |-> "u", va |-> "v", ta |-> "t",
             hus |-> "q", tas |-> "tas", huss |-> "qs", ps |-> "ps", uas |-> "uas",
             vas |-> "vas" ]

\* the variable the calculator retrieves next, "" when it has them all
NextVariable(feature, got) ==
    LET have == DOMAIN got
    IN  CASE feature = "influx" ->
               IF "rsds" \notin have THEN "rsds"
               ELSE IF "rsus" \notin have THEN "rsus" ELSE ""
          [] feature = "wind" ->
               IF "u" \notin have THEN "ua"
               ELSE IF "v" \notin have THEN "va"
               ELSE IF "ps" \notin got["u"].data_vars THEN ""
               ELSE IF "t" \notin have THEN "ta"
               ELSE IF "q" \notin have THEN "hus" ELSE ""
          [] feature = "surface" ->
               IF "tas" \notin have THEN "tas"
               ELSE IF "qs" \notin have THEN "huss"
               ELSE IF "ps" \notin have THEN "ps" ELSE ""
          [] feature = "wind10m" ->
               IF "uas" \notin have THEN "uas"
               ELSE IF "vas" \notin have THEN "vas" ELSE ""

\* attr["variables"] = [...]; attr.pop("variable"); ds.attrs = attr
WithProvenance(ds, esgf_params, variables) ==
    [ds EXCEPT !.attrs = DictPop(DictSet(esgf_params, "variables", variables), "variable")]

Returned(ds) == [err |-> "", ds |-> ds]
Raised(e)    == [err |-> e, ds |-> NoDataset]

get_data_influx(esgf_params, got) ==
    LET rsds == got["rsds"]
        rsus == got["rsus"]
        ds1  == Assign(rsds, "rsus", rsus, "rsus")
        ds2  == Prune(ds1, {"rsds", "rsus"})
        ds3  == RenameVar(RenameVar(ds2, "rsds", "influx"), "rsus", "outflux")
    IN  Returned(WithProvenance(ds3, esgf_params, <<"influx", "outflux">>))

\* levs, as the calculator chooses it from the eastward-wind dataset
LevelSlice(u) == IF "ps" \in u.data_vars THEN "slice(1.0, 0.9)" ELSE "slice(50, 200)"

\* how the height is computed: by accumulation from level to level
\* (hypsometric), or for each level on its own (direct)
HeightMethod(u) == IF "ps" \in u.data_vars THEN "hypsometric" ELSE "direct"

get_data_wind(esgf_params, got) ==
    LET u == got["u"]
        v == got["v"]
    IN  IF "ps" \in u.data_vars
        THEN LET t == got["t"]
                 q == got["q"]
             IN  IF ~HasAttr(u, "b") \/ ~HasAttr(t, "ps") THEN Raised(ErrAttribute)
                 ELSE IF "p0" \in u.data_vars /\ ~HasAttr(u, "a") THEN Raised(ErrAttribute)
                 ELSE IF "p0" \notin u.data_vars /\ ~HasAttr(u, "ap") THEN Raised(ErrAttribute)
                 ELSE
                   LET ds1 == AssignComputed(AssignComputed(u, "wnd", {u, v}), "z", {u, t})
                       ds2 == Assign(ds1, "va", v, "va")
                       ds3 == Assign(ds2, "ta", t, "ta")
                       ds4 == Assign(ds3, "hus", q, "hus")
                       ds5 == AssignComputed(ds4, "pa", {u, t})
                       ds6 == Prune(ds5, {"ua", "va", "wnd", "z", "ta", "hus", "pa"})
                   IN  Returned(WithProvenance(ds6, esgf_params,
                          <<"wind speed lvl", "z", "ua", "va", "ta", "hus", "pa">>))
        ELSE IF ~HasAttr(u, "b") \/ ~HasAttr(u, "orog") THEN Raised(ErrAttribute)
        \* ds["ta"] = t.ta: t, q and p are bound in the other branch only
        ELSE Raised(ErrUnbound)

get_data_surface(esgf_params, got) ==
    LET tas == got["tas"]
        qs  == got["qs"]
        ps  == got["ps"]
        ds1 == RenameVar(tas, "tas", "temperature")
        ds2 == Assign(ds1, "temperature", tas, "tas")
        ds3 == Assign(ds2, "pressure", ps, "ps")
        ds4 == Assign(ds3, "humidity", qs, "huss")
    IN  IF ~HasAttr(ds4, "height") THEN Raised(ErrDropHeight)
        ELSE LET ds5 == Prune(DropVar(ds4, "height"), {"temperature", "humidity", "pressure"})
             IN  Returned(WithProvenance(ds5, esgf_params,
                             <<"temperature", "humidity", "pressure">>))

get_data_wind10m(esgf_params, got) ==
    LET uas == got["uas"]
        vas == got["vas"]
        ds1 == RenameVar(uas, "uas", "ua10m")
        ds2 == Assign(ds1, "va10m", vas, "vas")
        ds3 == AssignComputed(ds2, "wnd10m", {uas, vas})
    IN  IF ~HasAttr(ds3, "height") THEN Raised(ErrDropHeight)
        ELSE LET ds4 == Prune(DropVar(ds3, "height"), {"va10m", "ua10m", "wnd10m"})
             IN  Returned(WithProvenance(ds4, esgf_params, <<"ua10m", "va10m", "wnd10m">>))

\* func(esgf_params, cutout, **retrieval_params), once every variable is retrieved
Calculate(feature, esgf_params, got) ==
    CASE feature = "influx"  -> get_data_influx(esgf_params, got)
      [] feature = "wind"    -> get_data_wind(esgf_params, got)
      [] feature = "surface" -> get_data_surface(esgf_params, got)
      [] feature = "wind10m" -> get_data_wind10m(esgf_params, got)

\* get_data after the calculator returned: the sanitizer registered under the
\* feature's name, if there is one and sanitize is set
SanitizerFound(feature) == ("sanitize_" \o feature) \in Globals

Sanitized(feature, sanitize, ds) ==
    IF SanitizerFound(feature) /\ sanitize
    THEN (CASE feature = "inflow" -> sanitize_inflow(ds))
    ELSE ds

(***************************************************************************)
(* The lock handed to retrieve_data: `with lock:` around the loop over the *)
(* variables.  The lock is free or owned by one invocation; an invocation  *)
(* given no lock runs the block under nullcontext().                       *)
(***************************************************************************)
Free == "free"

CanEnterAlways(l, supplied) == TRUE

\* lock.__enter__ returns once the lock is free
CanEnter(l, supplied) == supplied => l = Free

Entered(l, p, supplied) == IF supplied THEN p ELSE l

WithExitLeaksOnError(l, supplied, raised) == IF supplied /\ ~raised THEN Free ELSE l

\* lock.__exit__: runs when the block is left, by its end or by an exception
WithExit(l, supplied, raised) == IF supplied THEN Free ELSE l

(***************************************************************************)
(* search_ESGF                                                             *)
(***************************************************************************)
NeedsFallbackBelowTwo(hit_count) == hit_count <= 1

\* if ctx.hit_count == 0
NeedsFallback(hit_count) == hit_count = 0

\* one query sent to the search service and the hit count it reported
Query(kind, frequency, variable, hit_count) ==
    [kind |-> kind, frequency |-> frequency, variable |-> variable, hit_count |-> hit_count]

(***************************************************************************)
(* State.                                                                  *)
(***************************************************************************)
Procs == {"A", "B"}

VARIABLES
    cutout,    \* per invocation: the cutout's esgf_params (<<>> for None), dt and years
    args,      \* per invocation: feature, creation_parameters, whether a lock is supplied
    lock,      \* the owner of the lock the invocations share, or Free
    pc,        \* per invocation: where it stands
    frame,     \* per invocation: the locals of the calculator and of retrieve_data
    queries,   \* per invocation: the queries of its latest search_ESGF call
    result,    \* per invocation: <<ds>> once get_data returned ds
    err,       \* per invocation: the exception that ended it, "" for none
    yf_s, yf_e, yf_fmt, yf_years,  \* a locator's years and format, the requested years
    yf_pc, yf_out                  \* _year_in_file's call and its result

pvars  == <<cutout, args, lock, pc, frame, queries, result, err>>
yfvars == <<yf_s, yf_e, yf_fmt, yf_years, yf_pc, yf_out>>
vars   == <<cutout, args, lock, pc, frame, queries, result, err,
            yf_s, yf_e, yf_fmt, yf_years, yf_pc, yf_out>>

NoFrame == [ esgf_params |-> EmptyDict, defaulted |-> FALSE, call |-> 0,
             variables |-> <<>>, dsets |-> <<>>,
             search_results |-> <<>>, ret |-> NoDataset, got |-> EmptyDict ]

(***************************************************************************)
(* The inputs.                                                             *)
(***************************************************************************)
BaseParams == [ source_id |-> "IPSL-CM6A-LR", variant_label |-> "r1i1p1f1",
                experiment_id |-> "ssp585", project |-> "CMIP6" ]

FeatureParams == ("frequency_solar" :> "3hr") @@ ("frequency_wind" :> "6hr") @@
                 ("table_id_wind" :> "6hrLev") @@ ("frequency_temp" :> "3hr") @@
                 ("frequency_wnd10m" :> "3hr")

\* cutout.esgf_params: None, the calculators' keys without and with a
\* frequency, and the common keys alone
EsgfParamChoices == { <<>>, <<BaseParams @@ FeatureParams>>,
                      <<BaseParams @@ FeatureParams @@ ("frequency" :> "mon")>>,
                      <<BaseParams>> }

CadenceCodes == {"D", "3H", "W"}

FeatureNames == {"influx", "wind", "surface", "wind10m", "runoff", "inflow"}

CreationParameters == { EmptyDict, ("sanitize" :> TRUE), ("sanitize" :> FALSE) }

CutoutYearSets == { {YearLo + 2}, {YearLo + 1, YearLo + 2} }

Cutouts == [ esgf_params : EsgfParamChoices, dt : CadenceCodes, years : CutoutYearSets ]

Args == [ feature : FeatureNames, creation_parameters : CreationParameters, lock : BOOLEAN ]

\* a cutout and arguments that get every calculator to its retrievals
PlainCutout == [ esgf_params |-> <<BaseParams @@ FeatureParams>>, dt |-> "3H",
                 years |-> {YearLo + 2} ]

PlainArgs == [ feature : {"wind10m"}, creation_parameters : {EmptyDict},
               lock : BOOLEAN ]

YearIdle ==
    /\ yf_s = YearLo /\ yf_e = YearLo /\ yf_fmt = "day" /\ yf_years = {YearLo}
    /\ yf_pc = "off" /\ yf_out = FALSE

PipelineStart(active) ==
    /\ lock = Free
    /\ pc = [p \in Procs |-> IF p \in active THEN "start" ELSE "off"]
    /\ frame = [p \in Procs |-> NoFrame]
    /\ queries = [p \in Procs |-> <<>>]
    /\ result = [p \in Procs |-> <<>>]
    /\ err = [p \in Procs |-> ""]

\* one get_data invocation, over all the inputs
Init ==
    /\ \E c \in Cutouts : cutout = [p \in Procs |-> IF p = "A" THEN c ELSE PlainCutout]
    /\ \E a \in Args :
          args = [p \in Procs |-> IF p = "A" THEN a
                                  ELSE [feature |-> "influx", creation_parameters |-> EmptyDict,
                                        lock |-> FALSE]]
    /\ PipelineStart({"A"})
    /\ YearIdle

\* two get_data invocations that may share a lock
InitLock ==
    /\ cutout = [p \in Procs |-> PlainCutout]
    /\ args \in [Procs -> PlainArgs]
    /\ PipelineStart(Procs)
    /\ YearIdle

\* _year_in_file on its own
InitYear ==
    /\ yf_s \in Years
    /\ yf_e \in { e \in Years : yf_s <= e }
    /\ yf_fmt \in RangeFormats
    /\ yf_years \in RequestedYearSets
    /\ yf_pc = "call"
    /\ yf_out = FALSE
    /\ cutout = [p \in Procs |-> PlainCutout]
    /\ args = [p \in Procs |-> [feature |-> "influx", creation_parameters |-> EmptyDict,
                                lock |-> FALSE]]
    /\ PipelineStart({})

(***************************************************************************)
(* The steps of an invocation.  A step ends where the invocation may wait: *)
(* for the lock, or for an answer of the archive.                          *)
(***************************************************************************)
\* an exception raised in retrieve_data unwinds its frame: its locals are gone
Unwound(f) == [f EXCEPT !.variables = <<>>, !.dsets = <<>>, !.search_results = <<>>]

\* get_data, from its entry to the calculator's first retrieve_data call
Start(p) ==
    /\ pc[p] = "start"
    /\ LET e == get_data_entry(cutout[p], args[p].feature)
       IN  /\ cutout' = [cutout EXCEPT ![p].esgf_params = e.esgf_params_all]
           /\ frame' = [frame EXCEPT
                  ![p].esgf_params = e.esgf_params,
                  ![p].defaulted = e.defaulted,
                  ![p].variables = IF e.err = ""
                                   THEN <<NextVariable(args[p].feature, EmptyDict)>>
                                   ELSE <<>>]
           /\ err' = [err EXCEPT ![p] = e.err]
           /\ pc' = [pc EXCEPT ![p] = IF e.err = "" THEN "acquire" ELSE "failed"]
    /\ UNCHANGED <<args, lock, queries, result, yfvars>>

\* retrieve_data: dsets = []; with lock: (entered)
Acquire(p) ==
    /\ pc[p] = "acquire"
    /\ CanEnter(lock, args[p].lock)
    /\ lock' = Entered(lock, p, args[p].lock)
    /\ frame' = [frame EXCEPT ![p].dsets = <<>>, ![p].call = @ + 1]
    /\ pc' = [pc EXCEPT ![p] = "primary"]
    /\ UNCHANGED <<cutout, args, queries, result, err, yfvars>>

\* esgf_params["variable"] = variable; search_ESGF: the context of the
\* parameters and its hit count
SearchPrimary(p) ==
    /\ pc[p] = "primary"
    /\ \E hit_count \in 0 .. MaxHits :
          LET variable == Head(frame[p].variables)
              params   == DictSet(frame[p].esgf_params, "variable", variable)
          IN  /\ frame' = [frame EXCEPT ![p].esgf_params = params]
              /\ queries' = [queries EXCEPT ![p] =
                     << Query("new_context", params["frequency"], variable, hit_count) >>]
              /\ pc' = [pc EXCEPT ![p] =
                     IF NeedsFallback(hit_count) THEN "fallback" ELSE "files"]
    /\ UNCHANGED <<cutout, args, lock, result, err, yfvars>>

\* search_ESGF: the context constrained to the frequency suffixed with "Pt",
\* and its hit count; none again raises, which leaves the with block
SearchFallback(p) ==
    /\ pc[p] = "fallback"
    /\ \E hit_count \in 0 .. MaxHits :
          LET params == frame[p].esgf_params
          IN  /\ queries' = [queries EXCEPT ![p] = Append(@,
                     Query("constrain", params["frequency"] \o "Pt", params["variable"],
                           hit_count))]
              /\ IF hit_count = 0
                 THEN /\ err' = [err EXCEPT ![p] = ErrNoResults]
                      /\ pc' = [pc EXCEPT ![p] = "failed"]
                      /\ lock' = WithExit(lock, args[p].lock, TRUE)
                      /\ frame' = [frame EXCEPT ![p] = Unwound(frame[p])]
                 ELSE /\ pc' = [pc EXCEPT ![p] = "files"]
                      /\ UNCHANGED <<err, lock, frame>>
    /\ UNCHANGED <<cutout, args, result, yfvars>>

\* search_ESGF: the locators of the first record found
SearchFiles(p) ==
    /\ pc[p] = "files"
    /\ \E search_results \in LocatorLists :
          frame' = [frame EXCEPT ![p].search_results = search_results]
    /\ pc' = [pc EXCEPT ![p] = "open"]
    /\ UNCHANGED <<cutout, args, lock, queries, result, err, yfvars>>

\* [f.opendap_url for f in search_results if _year_in_file(...)]
FilterFiles(search_results, years) ==
    SelectSeq(search_results, LAMBDA url : year_in_file(Last(PySplit(url, "_")), years))

\* a file of the variable, as xr.open_mfdataset hands it over
Opened(variable, layout, val) ==
    Dataset({variable} \cup layout.aux, layout.coords, EmptyDict, variable :> val)

\* retrieve_data: the locators filtered and opened; then the next variable,
\* or the end of the with block, the merge and the return to the calculator
OpenFiles(p) ==
    /\ pc[p] = "open"
    /\ LET f        == frame[p]
           variable == Head(f.variables)
           files    == FilterFiles(f.search_results, cutout[p].years)
       IN  IF files = <<>>
           THEN /\ err' = [err EXCEPT ![p] = ErrNoFiles]
                /\ pc' = [pc EXCEPT ![p] = "failed"]
                /\ lock' = WithExit(lock, args[p].lock, TRUE)
                /\ frame' = [frame EXCEPT ![p] = Unwound(f)]
           ELSE \E readable \in BOOLEAN :
                  IF ~readable
                  THEN /\ err' = [err EXCEPT ![p] = ErrOpen]
                       /\ pc' = [pc EXCEPT ![p] = "failed"]
                       /\ lock' = WithExit(lock, args[p].lock, TRUE)
                       /\ frame' = [frame EXCEPT ![p] = Unwound(f)]
                  ELSE \E layout \in Layouts(variable), val \in SampleValues(variable) :
                         LET dsets == Append(f.dsets, Opened(variable, layout, val))
                         IN  IF Tail(f.variables) # <<>>
                             THEN /\ frame' = [frame EXCEPT ![p].dsets = dsets,
                                                  ![p].variables = Tail(f.variables),
                                                  ![p].search_results = <<>>]
                                  /\ pc' = [pc EXCEPT ![p] = "primary"]
                                  /\ UNCHANGED <<err, lock>>
                             ELSE /\ frame' = [frame EXCEPT ![p].dsets = dsets,
                                                  ![p].variables = <<>>,
                                                  ![p].search_results = <<>>,
                                                  ![p].ret = [Merge(dsets) EXCEPT
                                                                !.attrs = f.esgf_params]]
                                  /\ pc' = [pc EXCEPT ![p] = "calc"]
                                  /\ lock' = WithExit(lock, args[p].lock, FALSE)
                                  /\ UNCHANGED err
    /\ UNCHANGED <<cutout, args, queries, result, yfvars>>

\* the calculator after a retrieve_data call returned: the dataset is
\* normalised and bound; then the next retrieve_data call, or the feature's
\* dataset is assembled, pruned and returned to get_data, which sanitizes it
Calculator(p) ==
    /\ pc[p] = "calc"
    /\ LET f    == frame[p]
           got  == DictSet(f.got, LocalOf[f.esgf_params["variable"]],
                           rename_and_fix_coords(f.ret))
           next == NextVariable(args[p].feature, got)
       IN  IF next # ""
           THEN /\ frame' = [frame EXCEPT ![p].got = got, ![p].variables = <<next>>]
                /\ pc' = [pc EXCEPT ![p] = "acquire"]
                /\ UNCHANGED <<result, err>>
           ELSE LET out == Calculate(args[p].feature, f.esgf_params, got)
                IN  /\ frame' = [frame EXCEPT ![p].got = got]
                    /\ IF out.err # ""
                       THEN /\ err' = [err EXCEPT ![p] = out.err]
                            /\ pc' = [pc EXCEPT ![p] = "failed"]
                            /\ UNCHANGED result
                       ELSE /\ result' = [result EXCEPT ![p] =
                                   << Sanitized(args[p].feature,
                                                SanitizeOf(args[p].creation_parameters),
                                                out.ds) >>]
                            /\ pc' = [pc EXCEPT ![p] = "done"]
                            /\ UNCHANGED err
    /\ UNCHANGED <<cutout, args, lock, queries, yfvars>>

\* retrieve_data's filter on one locator
YearApply ==
    /\ yf_pc = "call"
    /\ yf_out' = year_in_file(Last(PySplit(OpendapUrl(yf_s, yf_e, yf_fmt), "_")), yf_years)
    /\ yf_pc' = "returned"
    /\ UNCHANGED <<yf_s, yf_e, yf_fmt, yf_years, pvars>>

Next ==
    \E p \in Procs :
        \/ Start(p)
        \/ Acquire(p)
        \/ SearchPrimary(p)
        \/ SearchFallback(p)
        \/ SearchFiles(p)
        \/ OpenFiles(p)
        \/ Calculator(p)

Spec == Init /\ [][Next]_vars

SpecLock == InitLock /\ [][Next]_vars

SpecYear == InitYear /\ [][YearApply]_vars
(***************************************************************************)
(* Properties.                                                             *)
(***************************************************************************)
\* the invocation is inside retrieve_data's with block
InRetrieval(p) == pc[p] \in {"primary", "fallback", "files", "open"}

Stopped(p) == pc[p] \in {"done", "failed"}

\* C1: in search_ESGF the fallback query (the frequency suffixed with "Pt")
\* is issued exactly when the primary query reports no hit, and at most once
\* in a call; if the fallback reports no hit either, the call fails with an
\* error and returns no locator list; after a primary query with a hit no
\* fallback query is issued
CatalogFallbackOnce ==
    \A p \in Procs :
        LET q == queries[p]
        IN  /\ Len(q) <= 2
            /\ q # <<>> => q[1].kind = "new_context"
            /\ Len(q) = 2 =>
                  /\ q[2].kind = "constrain"
                  /\ q[1].hit_count = 0
                  /\ q[2].frequency = q[1].frequency \o "Pt"
                  /\ q[2].variable = q[1].variable
            /\ (q # <<>> /\ q[1].hit_count = 0 /\ pc[p] # "fallback") => Len(q) = 2
            /\ (q # <<>> /\ q[1].hit_count > 0) => Len(q) = 1
            /\ (Len(q) = 2 /\ q[2].hit_count = 0) =>
                  /\ pc[p] = "failed"
                  /\ err[p] = ErrNoResults
                  /\ frame[p].search_results = <<>>
                  /\ result[p] = <<>>
            /\ err[p] = ErrNoResults => (Len(q) = 2 /\ q[2].hit_count = 0)

FallbackUsedWitness ==
    \E p \in Procs :
        /\ Len(queries[p]) = 2
        /\ queries[p][2].hit_count > 0
        /\ result[p] # <<>>

\* C2, as stated: with a lock supplied, the lock is held from the first
\* variable's catalog resolution to the last variable's open of a feature, so
\* that no other invocation sharing the lock is inside its own resolve-and-open
\* step between two variables of the same feature computation
NoInterleavingWithinFeature ==
    \A p \in Procs, q \in Procs :
        ( /\ p # q /\ args[p].lock /\ args[q].lock
          /\ frame[p].call >= 1 /\ pc[p] = "acquire" )
        => ~InRetrieval(q)

\* C2, amended: with a lock supplied, the lock is held all through each
\* retrieve_data call, from before its catalog resolution until its last open,
\* so no two invocations sharing the lock are inside a resolve-and-open step
\* at once; the calculators retrieve each variable by a call of its own, and
\* between two such calls the lock is released
LockHeldAcrossCall ==
    /\ \A p \in Procs : (args[p].lock /\ InRetrieval(p)) => lock = p
    /\ \A p \in Procs, q \in Procs :
          (p # q /\ args[p].lock /\ args[q].lock) => ~(InRetrieval(p) /\ InRetrieval(q))

InterleavedBetweenVariablesWitness ==
    \E p \in Procs, q \in Procs :
        /\ p # q /\ args[p].lock /\ args[q].lock
        /\ frame[p].call = 1 /\ pc[p] = "acquire"
        /\ pc[q] = "open" /\ lock = q

\* C3: a lock supplied to retrieve_data is released on every exit path: once
\* retrieve_data has stopped, by returning or because the catalog resolution
\* or the open of a variable raised, the invocation no longer holds the lock,
\* which is free whenever no invocation is inside the with block
LockReleasedOnExit ==
    /\ \A p \in Procs : ~InRetrieval(p) => lock # p
    /\ (\A p \in Procs : ~InRetrieval(p)) => lock = Free

AcquiredAfterFailureWitness ==
    \E p \in Procs, q \in Procs :
        /\ p # q /\ args[p].lock /\ args[q].lock
        /\ pc[p] = "failed" /\ err[p] \in {ErrNoResults, ErrNoFiles, ErrOpen}
        /\ lock = q /\ InRetrieval(q)

\* C4: a locator is included if and only if one requested year y satisfies
\* s <= y <= e, s and e being the years its date range starts and ends in; a
\* locator spanning exactly one requested year is included, one whose range
\* holds no requested year is excluded
YearFilterIsIntersection ==
    yf_pc = "returned" =>
        /\ yf_out = (\E y \in yf_years : yf_s <= y /\ y <= yf_e)
        /\ (yf_s = yf_e /\ yf_s \in yf_years) => yf_out
        /\ (\A y \in yf_years : y < yf_s \/ y > yf_e) => ~yf_out

YearFilterWitness ==
    /\ yf_pc = "returned"
    /\ yf_out
    /\ yf_s < yf_e
    /\ yf_e \in yf_years
    /\ yf_s \notin yf_years

\* C5: get_data for the feature "influx" with sanitize absent or true returns
\* a dataset whose influx has been clipped at 0.0 and so is not negative
InfluxSanitized ==
    \A p \in Procs :
        ( /\ args[p].feature = "influx"
          /\ SanitizeOf(args[p].creation_parameters)
          /\ result[p] # <<>> )
        => result[p][1].vals["influx"] >= 0

\* C6: when the cutout's parameters carry no frequency, every catalog query
\* of the invocation uses the token the cadence table gives for the cutout's
\* cadence code, and a code outside the table fails get_data before any query
FrequencyFromCadence ==
    \A p \in Procs :
        frame[p].defaulted =>
            /\ cutout[p].dt \notin DOMAIN CadenceTable =>
                  (Stopped(p) => (err[p] = ErrCadence /\ queries[p] = <<>>))
            /\ cutout[p].dt \in DOMAIN CadenceTable =>
                  \A i \in 1 .. Len(queries[p]) :
                      queries[p][i].frequency =
                          IF queries[p][i].kind = "new_context"
                          THEN CadenceTable[cutout[p].dt]
                          ELSE CadenceTable[cutout[p].dt] \o "Pt"

\* C7: the dataset a calculator returns lists in its "variables" attribute
\* exactly the names of its data variables, and its attributes hold the query
\* parameters without the "variable" key
ProvenanceListsVariables ==
    \A p \in Procs :
        result[p] # <<>> =>
            LET ds == result[p][1]
            IN  /\ ListSet(ds.attrs["variables"]) = ds.data_vars
                /\ "variable" \notin DOMAIN ds.attrs
                /\ \A k \in (DOMAIN frame[p].esgf_params) \ {"variable"} :
                      ds.attrs[k] = frame[p].esgf_params[k]

\* C8: get_data for a feature with no calculator registered fails at the
\* lookup with an explicit error that describes the violated precondition,
\* before any calculator runs and before any catalog query
UnregisteredFeatureExplicit ==
    \A p \in Procs :
        (("get_data_" \o args[p].feature) \notin Globals /\ pc[p] # "start" /\ pc[p] # "off")
        => /\ pc[p] = "failed"
           /\ err[p] \in ExplicitErrors
           /\ queries[p] = <<>>
           /\ frame[p].call = 0

\* C9: the data variables of the dataset a calculator returns are exactly the
\* feature's list in `features`, whatever auxiliary variables the files held
OutputIsDeclaredSet ==
    \A p \in Procs :
        result[p] # <<>> =>
            result[p][1].data_vars = ListSet(features[args[p].feature])

AuxiliaryPrunedWitness ==
    \E p \in Procs :
        /\ result[p] # <<>>
        /\ args[p].feature = "wind"
        /\ {"ps", "p0", "a", "b"} \subseteq frame[p].got["u"].data_vars

\* C10: with no "ps" in the eastward-wind dataset, get_data_wind restricts
\* the levels to [50, 200], retrieves neither temperature nor humidity,
\* computes the height for each level on its own, and returns the dataset
PressureLevelWindReturns ==
    \A p \in Procs :
        ( /\ args[p].feature = "wind"
          /\ {"u", "v"} \subseteq DOMAIN frame[p].got
          /\ "ps" \notin frame[p].got["u"].data_vars
          /\ Stopped(p) )
        => /\ LevelSlice(frame[p].got["u"]) = "slice(50, 200)"
           /\ HeightMethod(frame[p].got["u"]) = "direct"
           /\ {"t", "q"} \cap DOMAIN frame[p].got = {}
           /\ result[p] # <<>>
====
